---- MODULE Spec2Model ----
(***************************************************************************)
(* agent-smith: the headless browser adapter (HeadlessChromeBrowser) and   *)
(* the scoped session that main() opens around the agent run.              *)
(*                                                                         *)
(* Strings that the code inspects character by character (key names, which *)
(* are lower-cased before the table lookup) are sequences of one-character *)
(* strings; everything else is an ordinary string.                         *)
(*                                                                         *)
(* Every driver call is an entry [api, args, ok] of a log: ok = FALSE is   *)
(* the call that raised.  A handler is the list of driver calls it issues  *)
(* in order; a call that raises ends the handler there, except in goto.    *)
(***************************************************************************)
EXTENDS Integers, Sequences, FiniteSets, TLC

\* ---------------------------------------------------------------- bounds
\* longest key list handed to keypress
MaxKeys == 3
\* longest drag path
MaxPath == 3
\* coordinates range over 0..MaxCoord
MaxCoord == 1
\* driver calls that may raise inside the actions of one session
MaxFaults == 1

\* ------------------------------------------------------- python helpers
None == "None"

UpperChars ==
    << "A", "B", "C", "D", "E", "F", "G", "H", "I", "J", "K", "L", "M",
       "N", "O", "P", "Q", "R", "S", "T", "U", "V", "W", "X", "Y", "Z" >>

LowerChars ==
    << "a", "b", "c", "d", "e", "f", "g", "h", "i", "j", "k", "l", "m",
       "n", "o", "p", "q", "r", "s", "t", "u", "v", "w", "x", "y", "z" >>

\* str.lower() on one character
LowerChar(c) ==
    IF \E i \in 1..Len(UpperChars) : UpperChars[i] = c
    THEN LowerChars[CHOOSE i \in 1..Len(UpperChars) : UpperChars[i] = c]
    ELSE c

\* str.lower()
Lower(s) == [i \in 1..Len(s) |-> LowerChar(s[i])]

\* reversed(seq)
Reversed(seq) == [i \in 1..Len(seq) |-> seq[Len(seq) + 1 - i]]

\* sequences over S of length at most n
SeqsUpTo(S, n) == UNION { [1..k -> S] : k \in 0..n }

\* ------------------------------------------------------ key mapping table
CUA_KEY_TO_PLAYWRIGHT_KEY ==
       (<<"/">>
           :> <<"D", "i", "v", "i", "d", "e">>)
    @@ (<<"\\">>
           :> <<"B", "a", "c", "k", "s", "l", "a", "s", "h">>)
    @@ (<<"a", "l", "t">>
           :> <<"A", "l", "t">>)
    @@ (<<"a", "r", "r", "o", "w", "d", "o", "w", "n">>
           :> <<"A", "r", "r", "o", "w", "D", "o", "w", "n">>)
    @@ (<<"a", "r", "r", "o", "w", "l", "e", "f", "t">>
           :> <<"A", "r", "r", "o", "w", "L", "e", "f", "t">>)
    @@ (<<"a", "r", "r", "o", "w", "r", "i", "g", "h", "t">>
           :> <<"A", "r", "r", "o", "w", "R", "i", "g", "h", "t">>)
    @@ (<<"a", "r", "r", "o", "w", "u", "p">>
           :> <<"A", "r", "r", "o", "w", "U", "p">>)
    @@ (<<"b", "a", "c", "k", "s", "p", "a", "c", "e">>
           :> <<"B", "a", "c", "k", "s", "p", "a", "c", "e">>)
    @@ (<<"c", "a", "p", "s", "l", "o", "c", "k">>
           :> <<"C", "a", "p", "s", "L", "o", "c", "k">>)
    @@ (<<"c", "m", "d">>
           :> <<"M", "e", "t", "a">>)
    @@ (<<"c", "t", "r", "l">>
           :> <<"C", "o", "n", "t", "r", "o", "l", "O", "r", "M", "e", "t", "a">>)
    @@ (<<"d", "e", "l", "e", "t", "e">>
           :> <<"D", "e", "l", "e", "t", "e">>)
    @@ (<<"e", "n", "d">>
           :> <<"E", "n", "d">>)
    @@ (<<"e", "n", "t", "e", "r">>
           :> <<"E", "n", "t", "e", "r">>)
    @@ (<<"e", "s", "c">>
           :> <<"E", "s", "c", "a", "p", "e">>)
    @@ (<<"h", "o", "m", "e">>
           :> <<"H", "o", "m", "e">>)
    @@ (<<"i", "n", "s", "e", "r", "t">>
           :> <<"I", "n", "s", "e", "r", "t">>)
    @@ (<<"o", "p", "t", "i", "o", "n">>
           :> <<"A", "l", "t">>)
    @@ (<<"p", "a", "g", "e", "d", "o", "w", "n">>
           :> <<"P", "a", "g", "e", "D", "o", "w", "n">>)
    @@ (<<"p", "a", "g", "e", "u", "p">>
           :> <<"P", "a", "g", "e", "U", "p">>)
    @@ (<<"s", "h", "i", "f", "t">>
           :> <<"S", "h", "i", "f", "t">>)
    @@ (<<"s", "p", "a", "c", "e">>
           :> <<" ">>)
    @@ (<<"s", "u", "p", "e", "r">>
           :> <<"M", "e", "t", "a">>)
    @@ (<<"t", "a", "b">>
           :> <<"T", "a", "b">>)
    @@ (<<"w", "i", "n">>
           :> <<"M", "e", "t", "a">>)

\* dict.get(key, default) on the table
DictGet(key, default) ==
    IF key \in DOMAIN CUA_KEY_TO_PLAYWRIGHT_KEY
    THEN CUA_KEY_TO_PLAYWRIGHT_KEY[key]
    ELSE default

\* the identifiers keypress treats as modifiers
MODIFIERS ==
    {
      <<"C", "o", "n", "t", "r", "o", "l">>,
      <<"A", "l", "t">>,
      <<"S", "h", "i", "f", "t">>,
      <<"M", "e", "t", "a">>,
      <<"C", "o", "n", "t", "r", "o", "l", "O", "r", "M", "e", "t", "a">>
    }

\* ------------------------------------------------------------ constants
\* HeadlessChromeBrowser.dimensions
Width == 1024
Height == 768
\* default of wait(ms)
DefaultWaitMs == 1000

START_URL == "https://google.com"

\* -------------------------------------------------- inputs of the actions
\* key names: mapped modifier, the same in upper case, an unmapped name that
\* is itself a modifier identifier, an unmapped lower-case and upper-case
\* letter, a mapped regular key written with a capital
KeyNames ==
    {
      <<"c", "t", "r", "l">>,
      <<"C", "T", "R", "L">>,
      <<"C", "o", "n", "t", "r", "o", "l">>,
      <<"a">>,
      <<"Q">>,
      <<"E", "n", "t", "e", "r">>
    }

KeyLists == SeqsUpTo(KeyNames, MaxKeys)

Coords == 0..MaxCoord

Points == { [x |-> 0, y |-> 0], [x |-> 0, y |-> MaxCoord], [x |-> MaxCoord, y |-> 0] }

Paths == SeqsUpTo(Points, MaxPath)

Buttons == { "left", "right", "back", "forward", "wheel", "middle" }

Urls == { "https://example.test" }

Texts == { "hi" }

\* ------------------------------------------------------------ driver calls
Call(api, args) == [api |-> api, args |-> args, ok |-> TRUE]

\* the calls the driver receives when the failAt-th call of plan raises
\* (failAt = 0: none raises): the handler stops at the call that raised
Attempt(plan, failAt) ==
    IF failAt = 0
    THEN plan
    ELSE [i \in 1..failAt |-> IF i = failAt THEN [plan[i] EXCEPT !.ok = FALSE] ELSE plan[i]]

\* the calls that took effect
Effected(log) == SelectSeq(log, LAMBDA c : c.ok)

\* number of calls of api in log
RECURSIVE CountCalls(_, _)
CountCalls(log, api) ==
    IF log = <<>> THEN 0
    ELSE (IF Head(log).api = api THEN 1 ELSE 0) + CountCalls(Tail(log), api)

\* __aenter__: the driver calls of a startup, in order
StartupCalls ==
    << Call("async_playwright.start", <<>>),
       Call("chromium.launch", <<"chromium_sandbox", "headless", Width, Height>>),
       Call("browser.new_page", <<>>),
       Call("page.set_viewport_size", <<Width, Height>>),
       Call("page.goto", <<START_URL>>) >>

ScreenshotCalls == << Call("page.screenshot", <<"full_page=False">>) >>

BackCalls == << Call("page.go_back", <<>>) >>

ForwardCalls == << Call("page.go_forward", <<>>) >>

ButtonTypeSame(button) == button

\* button_mapping.get(button, "left")
ButtonType(button) ==
    IF button \in {"left", "right"} THEN button ELSE "left"

ClickCallsAlwaysMouse(x, y, button) ==
    << Call("mouse.click", <<x, y, ButtonType(button)>>) >>

\* click: the match statement on button
ClickCalls(x, y, button) ==
    CASE button = "back" -> BackCalls
      [] button = "forward" -> ForwardCalls
      [] button = "wheel" -> << Call("mouse.wheel", <<x, y>>) >>
      [] OTHER -> << Call("mouse.click", <<x, y, ButtonType(button)>>) >>

DoubleClickCalls(x, y) == << Call("mouse.dblclick", <<x, y>>) >>

ScrollCalls(x, y, scroll_x, scroll_y) ==
    << Call("mouse.move", <<x, y>>),
       Call("page.evaluate", <<"window.scrollBy", scroll_x, scroll_y>>) >>

TypeCalls(text) == << Call("keyboard.type", <<text>>) >>

MoveCalls(x, y) == << Call("mouse.move", <<x, y>>) >>

MappedKeyCaseSensitive(key) == DictGet(key, key)

\* CUA_KEY_TO_PLAYWRIGHT_KEY.get(key.lower(), key)
MappedKey(key) == DictGet(Lower(key), key)

MappedKeys(keys) == [i \in 1..Len(keys) |-> MappedKey(keys[i])]

\* keypress: the partition loop
ModifierKeys(keys) == SelectSeq(MappedKeys(keys), LAMBDA k : k \in MODIFIERS)

RegularKeys(keys) == SelectSeq(MappedKeys(keys), LAMBDA k : k \notin MODIFIERS)

KeyCalls(api, ks) == [i \in 1..Len(ks) |-> Call(api, <<ks[i]>>)]

KeypressCallsSameOrder(keys) ==
    KeyCalls("keyboard.down", ModifierKeys(keys))
        \o KeyCalls("keyboard.press", RegularKeys(keys))
        \o KeyCalls("keyboard.up", ModifierKeys(keys))

\* keypress: the three loops
KeypressCalls(keys) ==
    KeyCalls("keyboard.down", ModifierKeys(keys))
        \o KeyCalls("keyboard.press", RegularKeys(keys))
        \o KeyCalls("keyboard.up", Reversed(ModifierKeys(keys)))

DragCallsMoveAll(path) ==
    IF path = <<>>
    THEN <<>>
    ELSE << Call("mouse.move", <<path[1].x, path[1].y>>), Call("mouse.down", <<>>) >>
            \o [i \in 1..Len(path) |-> Call("mouse.move", <<path[i].x, path[i].y>>)]
            \o << Call("mouse.up", <<>>) >>

\* drag
DragCalls(path) ==
    IF path = <<>>
    THEN <<>>
    ELSE << Call("mouse.move", <<path[1].x, path[1].y>>), Call("mouse.down", <<>>) >>
            \o [i \in 1..(Len(path) - 1) |-> Call("mouse.move", <<path[i + 1].x, path[i + 1].y>>)]
            \o << Call("mouse.up", <<>>) >>

GotoCalls(url) == << Call("page.goto", <<url>>) >>

\* the keyboard after the calls of log: how often each modifier is down
RECURSIVE KeysAfter(_, _)
KeysAfter(h, log) ==
    IF log = <<>> THEN h
    ELSE LET c == Head(log)
             k == c.args[1]
             h1 == CASE c.ok /\ c.api = "keyboard.down" /\ k \in MODIFIERS ->
                          [h EXCEPT ![k] = @ + 1]
                     [] c.ok /\ c.api = "keyboard.up" /\ k \in MODIFIERS ->
                          [h EXCEPT ![k] = IF @ > 0 THEN @ - 1 ELSE 0]
                     [] OTHER -> h
         IN KeysAfter(h1, Tail(log))

\* ------------------------------------------------------------------ state
VARIABLES
    pc,           \* main(): "start", "body" (inside the scope, no action running),
                  \* "acted" (an action has just ended), "exiting", "done"
    playwright,   \* self._playwright
    browser,      \* self._browser
    page,         \* self._page
    driverAlive,  \* the driver subsystem is running
    browserAlive, \* the browser process is running
    life,         \* the driver calls of __aenter__ and __aexit__, in order
    req,          \* the action that has just ended
    calls,        \* the driver calls of that action, in order
    result,       \* how that action ended: "ok" or "raised"
    held,         \* the driver's keyboard: how often each modifier is down
    printed,      \* lines goto has printed
    faults,       \* driver calls that have raised inside actions
    bodyOutcome,  \* how the scope body ended: "normal" or "error"
    mainResult    \* how main() ended: "ok" or "raised"

vars ==
    << pc, playwright, browser, page, driverAlive, browserAlive, life, req, calls,
       result, held, printed, faults, bodyOutcome, mainResult >>

session == << playwright, browser, page, driverAlive, browserAlive, life >>

NoReq == [op |-> "none"]

PLAYWRIGHT == "playwright#1"
BROWSER == "browser#1"
PAGE == "page#1"

Init ==
    /\ pc = "start"
    /\ playwright = None
    /\ browser = None
    /\ page = None
    /\ driverAlive = FALSE
    /\ browserAlive = FALSE
    /\ life = <<>>
    /\ req = NoReq
    /\ calls = <<>>
    /\ result = None
    /\ held = [k \in MODIFIERS |-> 0]
    /\ printed = 0
    /\ faults = 0
    /\ bodyOutcome = None
    /\ mainResult = None

\* ------------------------------------------------------------- lifecycle
\* async with HeadlessChromeBrowser() as chrome: __aenter__.  A step that
\* raises ends __aenter__ there; the scope is not entered and __aexit__ is
\* not called.
AEnter ==
    /\ pc = "start"
    /\ \E failAt \in 0..Len(StartupCalls) :
        LET completed(k) == failAt = 0 \/ failAt > k
        IN  /\ life' = Attempt(StartupCalls, failAt)
            /\ playwright' = IF completed(1) THEN PLAYWRIGHT ELSE None
            /\ driverAlive' = completed(1)
            /\ browser' = IF completed(2) THEN BROWSER ELSE None
            /\ browserAlive' = completed(2)
            /\ page' = IF completed(3) THEN PAGE ELSE None
            /\ pc' = IF failAt = 0 THEN "body" ELSE "done"
            /\ mainResult' = IF failAt = 0 THEN None ELSE "raised"
    /\ UNCHANGED << req, calls, result, held, printed, faults, bodyOutcome >>

\* the scope body returns: Runner.run has ended and the output is printed
BodyReturn ==
    /\ pc = "body"
    /\ pc' = "exiting"
    /\ bodyOutcome' = "normal"
    /\ UNCHANGED << session, req, calls, result, held, printed, faults, mainResult >>

\* the scope body raises: the error of an action propagates, or input() or
\* the run itself raises
BodyRaise ==
    /\ \/ pc = "acted" /\ result = "raised"
       \/ pc = "body"
    /\ pc' = "exiting"
    /\ bodyOutcome' = "error"
    /\ UNCHANGED << session, req, calls, result, held, printed, faults, mainResult >>

\* __aexit__; it returns None, so an error of the body propagates
AExit ==
    /\ pc = "exiting"
    /\ \E closeFails, stopFails \in BOOLEAN :
        LET closeTried == browser # None
            closeRaised == closeTried /\ closeFails
            stopTried == ~closeRaised /\ playwright # None
            stopRaised == stopTried /\ stopFails
            closeCall == [Call("browser.close", <<>>) EXCEPT !.ok = ~closeFails]
            stopCall == [Call("playwright.stop", <<>>) EXCEPT !.ok = ~stopFails]
        IN  /\ life' = life \o (IF closeTried THEN <<closeCall>> ELSE <<>>)
                            \o (IF stopTried THEN <<stopCall>> ELSE <<>>)
            /\ browserAlive' = IF closeTried /\ ~closeFails THEN FALSE ELSE browserAlive
            /\ driverAlive' = IF stopTried /\ ~stopFails THEN FALSE ELSE driverAlive
            /\ mainResult' =
                   IF closeRaised \/ stopRaised \/ bodyOutcome = "error"
                   THEN "raised" ELSE "ok"
    /\ pc' = "done"
    /\ UNCHANGED << playwright, browser, page, req, calls, result, held, printed,
                    faults, bodyOutcome >>

\* ---------------------------------------------------------------- actions
\* where a handler with the driver calls of plan may end: 0 is its normal
\* end, k > 0 is the k-th call raising
FailPoints(plan) == IF faults < MaxFaults THEN 0..Len(plan) ELSE {0}

\* One action of the adapter, called by the agent run inside the scope: the
\* driver calls of plan are issued in order, and the first that raises ends
\* the action with that error.
Act(r, plan, failAt) ==
    /\ req' = r
    /\ LET log == Attempt(plan, failAt)
       IN  /\ calls' = log
           /\ held' = KeysAfter(held, log)
    /\ result' = IF failAt = 0 THEN "ok" ELSE "raised"
    /\ faults' = IF failAt = 0 THEN faults ELSE faults + 1
    /\ pc' = "acted"
    /\ UNCHANGED << session, printed, bodyOutcome, mainResult >>

Screenshot ==
    /\ pc = "body"
    /\ \E failAt \in FailPoints(ScreenshotCalls) :
           Act([op |-> "screenshot"], ScreenshotCalls, failAt)

Click ==
    /\ pc = "body"
    /\ \E x \in Coords, y \in Coords, button \in Buttons :
           LET plan == ClickCalls(x, y, button)
           IN  \E failAt \in FailPoints(plan) :
                   Act([op |-> "click", x |-> x, y |-> y, button |-> button], plan, failAt)

DoubleClick ==
    /\ pc = "body"
    /\ \E x \in Coords, y \in Coords :
           LET plan == DoubleClickCalls(x, y)
           IN  \E failAt \in FailPoints(plan) :
                   Act([op |-> "double_click", x |-> x, y |-> y], plan, failAt)

Scroll ==
    /\ pc = "body"
    /\ \E x \in Coords, y \in Coords, sx \in Coords, sy \in Coords :
           LET plan == ScrollCalls(x, y, sx, sy)
           IN  \E failAt \in FailPoints(plan) :
                   Act([op |-> "scroll", x |-> x, y |-> y, scroll_x |-> sx, scroll_y |-> sy],
                       plan, failAt)

Type ==
    /\ pc = "body"
    /\ \E text \in Texts :
           LET plan == TypeCalls(text)
           IN  \E failAt \in FailPoints(plan) :
                   Act([op |-> "type", text |-> text], plan, failAt)

\* asyncio.sleep: no driver call
Wait ==
    /\ pc = "body"
    /\ Act([op |-> "wait", ms |-> DefaultWaitMs], <<>>, 0)

Move ==
    /\ pc = "body"
    /\ \E x \in Coords, y \in Coords :
           LET plan == MoveCalls(x, y)
           IN  \E failAt \in FailPoints(plan) :
                   Act([op |-> "move", x |-> x, y |-> y], plan, failAt)

Keypress ==
    /\ pc = "body"
    /\ \E keys \in KeyLists :
           LET plan == KeypressCalls(keys)
           IN  \E failAt \in FailPoints(plan) :
                   Act([op |-> "keypress", keys |-> keys], plan, failAt)

Drag ==
    /\ pc = "body"
    /\ \E path \in Paths :
           LET plan == DragCalls(path)
           IN  \E failAt \in FailPoints(plan) :
                   Act([op |-> "drag", path |-> path], plan, failAt)

GotoPropagates ==
    /\ pc = "body"
    /\ \E url \in Urls :
           LET plan == GotoCalls(url)
           IN  \E failAt \in FailPoints(plan) :
                   Act([op |-> "goto", url |-> url], plan, failAt)

\* goto: the navigation error is caught and printed, and goto returns
Goto ==
    /\ pc = "body"
    /\ \E url \in Urls :
           LET plan == GotoCalls(url)
           IN  \E failAt \in FailPoints(plan) :
                   /\ req' = [op |-> "goto", url |-> url]
                   /\ calls' = Attempt(plan, failAt)
                   /\ result' = "ok"
                   /\ printed' = IF failAt = 0 THEN printed ELSE printed + 1
                   /\ faults' = IF failAt = 0 THEN faults ELSE faults + 1
                   /\ pc' = "acted"
                   /\ UNCHANGED << session, held, bodyOutcome, mainResult >>

Back ==
    /\ pc = "body"
    /\ \E failAt \in FailPoints(BackCalls) : Act([op |-> "back"], BackCalls, failAt)

Forward ==
    /\ pc = "body"
    /\ \E failAt \in FailPoints(ForwardCalls) : Act([op |-> "forward"], ForwardCalls, failAt)

\* the agent run takes the action's result or error and goes on
Resume ==
    /\ pc = "acted"
    /\ pc' = "body"
    /\ req' = NoReq
    /\ calls' = <<>>
    /\ result' = None
    /\ UNCHANGED << session, held, printed, faults, bodyOutcome, mainResult >>

Next ==
    \/ AEnter
    \/ BodyReturn
    \/ BodyRaise
    \/ AExit
    \/ Screenshot
    \/ Click
    \/ DoubleClick
    \/ Scroll
    \/ Type
    \/ Wait
    \/ Move
    \/ Keypress
    \/ Drag
    \/ Goto
    \/ Back
    \/ Forward
    \/ Resume

Spec == Init /\ [][Next]_vars


\* ------------------------------------------------------------------ claims
OpenSession ==
    /\ playwright = PLAYWRIGHT
    /\ browser = BROWSER
    /\ page = PAGE
    /\ driverAlive
    /\ browserAlive

\* the scope was entered and __aexit__ has run
ScopeExited == pc = "done" /\ bodyOutcome # None

\* C1: teardown of an open session attempts both steps, close browser and
\* stop driver, each exactly once: a failure of the close does not suppress
\* the stop, and no step is retried.
C1_TeardownStepsIndependent ==
    ScopeExited =>
        /\ CountCalls(life, "browser.close") = 1
        /\ CountCalls(life, "playwright.stop") = 1

\* C2: for every session that opened, whatever ran inside the scope and
\* however the body ended, at scope exit the browser has been closed once and
\* the driver stopped once, the browser first, and the session was opened
\* only once.
C2_ClosedOnceInOrder ==
    ScopeExited =>
        /\ CountCalls(life, "async_playwright.start") = 1
        /\ CountCalls(life, "chromium.launch") = 1
        /\ Len(life) = Len(StartupCalls) + 2
        /\ life[Len(StartupCalls) + 1].api = "browser.close"
        /\ life[Len(StartupCalls) + 2].api = "playwright.stop"

\* C3: for every key list, the driver sees a down for each modifier in input
\* order, then a press of each regular key in input order, then an up for
\* each modifier in the reverse of the down order; a keypress that a driver
\* error ends has issued a proper prefix of that sequence.  keypress of
\* ["ctrl", "a"] yields down(ControlOrMeta), press(a), up(ControlOrMeta).
C3_KeypressOrder ==
    (pc = "acted" /\ req.op = "keypress") =>
        LET mapped == [i \in 1..Len(req.keys) |-> MappedKey(req.keys[i])]
            mods == SelectSeq(mapped, LAMBDA k : k \in MODIFIERS)
            regs == SelectSeq(mapped, LAMBDA k : k \notin MODIFIERS)
            nD == Len(mods)
            nR == Len(regs)
            eff == Effected(calls)
        IN  /\ \A i \in 1..Len(eff) :
                 /\ Len(eff[i].args) = 1
                 /\ i <= nD =>
                        eff[i].api = "keyboard.down" /\ eff[i].args[1] = mods[i]
                 /\ (nD < i /\ i <= nD + nR) =>
                        eff[i].api = "keyboard.press" /\ eff[i].args[1] = regs[i - nD]
                 /\ nD + nR < i =>
                        /\ eff[i].api = "keyboard.up"
                        /\ eff[i].args[1] = mods[nD + 1 - (i - nD - nR)]
            /\ result = "ok" => Len(eff) = nD + nR + nD
            /\ result = "raised" => Len(eff) < nD + nR + nD
            /\ (result = "ok" /\ req.keys = << <<"c", "t", "r", "l">>, <<"a">> >>) =>
                   calls = << Call("keyboard.down",
                                   << <<"C", "o", "n", "t", "r", "o", "l", "O", "r", "M", "e", "t", "a">> >>),
                              Call("keyboard.press", << <<"a">> >>),
                              Call("keyboard.up",
                                   << <<"C", "o", "n", "t", "r", "o", "l", "O", "r", "M", "e", "t", "a">> >>) >>

\* two different modifiers around a regular key have been pressed
C3_Witness ==
    /\ pc = "acted"
    /\ req.op = "keypress"
    /\ req.keys = << <<"c", "t", "r", "l">>, <<"a">>, <<"C", "o", "n", "t", "r", "o", "l">> >>
    /\ result = "ok"
    /\ Len(calls) = 5
    /\ calls[5].args[1] = <<"C", "o", "n", "t", "r", "o", "l", "O", "r", "M", "e", "t", "a">>

\* C4: keypress of one key name presses and releases exactly one identifier:
\* the table's value for the lower-cased name when the table has it, else
\* the name itself with its case kept; names that differ only in case give
\* the same table entry.
C4_SingleKeyIdentifier ==
    (pc = "acted" /\ req.op = "keypress" /\ Len(req.keys) = 1 /\ result = "ok") =>
        LET k == req.keys[1]
            id == IF Lower(k) \in DOMAIN CUA_KEY_TO_PLAYWRIGHT_KEY
                  THEN CUA_KEY_TO_PLAYWRIGHT_KEY[Lower(k)]
                  ELSE k
        IN  /\ \A i \in 1..Len(calls) : calls[i].args = <<id>>
            /\ \/ /\ Len(calls) = 1
                  /\ calls[1].api = "keyboard.press"
               \/ /\ Len(calls) = 2
                  /\ calls[1].api = "keyboard.down"
                  /\ calls[2].api = "keyboard.up"
            /\ \A k2 \in KeyNames :
                 (Lower(k2) = Lower(k) /\ Lower(k) \in DOMAIN CUA_KEY_TO_PLAYWRIGHT_KEY) =>
                     MappedKey(k2) = id

\* an upper-case name of a mapped key has been pressed
C4_Witness ==
    /\ pc = "acted"
    /\ req.op = "keypress"
    /\ req.keys = << <<"C", "T", "R", "L">> >>
    /\ result = "ok"
    /\ calls[1].args[1] = <<"C", "o", "n", "t", "r", "o", "l", "O", "r", "M", "e", "t", "a">>

\* C5: click with button "back" issues the one history call of back() and no
\* mouse click, with "forward" that of forward(), with "wheel" one wheel
\* scroll with (x, y) and neither a mouse click nor a history call.
C5_ClickSpecialButtons ==
    (pc = "acted" /\ req.op = "click" /\ req.button \in {"back", "forward", "wheel"}) =>
        /\ Len(calls) = 1
        /\ req.button = "back" => (calls[1].api = "page.go_back" /\ calls[1].args = <<>>)
        /\ req.button = "forward" => (calls[1].api = "page.go_forward" /\ calls[1].args = <<>>)
        /\ req.button = "wheel" =>
               (calls[1].api = "mouse.wheel" /\ calls[1].args = <<req.x, req.y>>)

\* a click with button "wheel" at a point with x # y has ended
C5_Witness ==
    /\ pc = "acted"
    /\ req.op = "click"
    /\ req.button = "wheel"
    /\ req.x # req.y
    /\ result = "ok"

\* C6: drag of the empty path issues no pointer event; drag of [p] moves to
\* p, presses and releases with no move in between; drag of [p0, ..., pn]
\* moves to p0, presses, moves to p1, ..., pn in path order and releases once,
\* last.
C6_DragEvents ==
    (pc = "acted" /\ req.op = "drag") =>
        LET n == Len(req.path)
            At(i) == <<req.path[i].x, req.path[i].y>>
        IN  /\ n = 0 => (calls = <<>> /\ result = "ok")
            /\ (n > 0 /\ result = "ok") =>
                   /\ Len(calls) = n + 2
                   /\ calls[1] = Call("mouse.move", At(1))
                   /\ calls[2] = Call("mouse.down", <<>>)
                   /\ \A i \in 2..n : calls[i + 1] = Call("mouse.move", At(i))
                   /\ calls[n + 2] = Call("mouse.up", <<>>)

\* a drag over three points, not all the same, has ended
C6_Witness ==
    /\ pc = "acted"
    /\ req.op = "drag"
    /\ Len(req.path) = 3
    /\ req.path[1] # req.path[2]
    /\ req.path[2] # req.path[3]
    /\ result = "ok"

\* C7: goto never raises: a navigation that fails is printed and swallowed,
\* goto returns, and the session stays open with the same browser and page,
\* so a later action still runs against that page.
C7_GotoSwallowsError ==
    /\ (pc = "acted" /\ req.op = "goto") =>
           /\ result = "ok"
           /\ Len(calls) = 1
           /\ calls[1].api = "page.goto"
           /\ calls[1].args = <<req.url>>
           /\ ~calls[1].ok => printed > 0
    /\ (printed > 0 /\ pc \in {"body", "acted"}) => OpenSession

\* after a goto whose navigation failed, a screenshot has been taken
C7_Witness ==
    /\ printed > 0
    /\ pc = "acted"
    /\ req.op = "screenshot"
    /\ result = "ok"
    /\ OpenSession

\* C8: click with any other button issues one mouse click at (x, y) and no
\* history or wheel call; the driver button is "right" for "right" and
\* "left" for "left" and for every other name.
C8_ClickMouseButton ==
    (pc = "acted" /\ req.op = "click" /\ req.button \notin {"back", "forward", "wheel"}) =>
        /\ Len(calls) = 1
        /\ calls[1].api = "mouse.click"
        /\ calls[1].args = <<req.x, req.y, IF req.button = "right" THEN "right" ELSE "left">>

\* a click with an unrecognized button name has ended
C8_Witness ==
    /\ pc = "acted"
    /\ req.op = "click"
    /\ req.button = "middle"
    /\ req.x # req.y
    /\ result = "ok"

\* C9: when a startup step fails after the driver was started, every handle
\* acquired so far has been released by the time the error reaches the caller.
C9_StartupFailureReleases ==
    (pc = "done" /\ bodyOutcome = None /\ mainResult = "raised") =>
        (~driverAlive /\ ~browserAlive)

\* C10: keypress never leaves a modifier held: whenever no keypress is
\* running, every modifier that a keypress put down has been released,
\* also when the keypress ended with a driver error.
C10_NoModifierHeld ==
    \A k \in MODIFIERS : held[k] = 0

====
